---------------------------- MODULE Spec2Model ----------------------------
(***************************************************************************)
(* Verification model of the dependency-watchdog core.                     *)
(*                                                                         *)
(*   Part 1  prober registry (Manager): Register / Unregister / GetProber  *)
(*           / GetAllProbers under one mutex, and the life of the probers  *)
(*           it holds.  The manager's code is not among the sources; only  *)
(*           its test is (src/unnamed/part_000, 121-207), so this part is  *)
(*           modelled from the specification, sections 3, 4.1 and 5.       *)
(*   Part 2  scaler: createResourceScaleFlow and the functions it uses     *)
(*           (src/internal/prober/scaler.go), as operators.                *)
(*   Part 3  one run of a compiled scale flow: the flow runner (a library, *)
(*           modelled from section 4.4) driving the task functions that    *)
(*           createScaleTaskFn builds, each a Retry around scale().        *)
(*   Part 4  one call of util.Retry (src/unnamed/part_001).                *)
(*   Part 5  one pod watcher: watch(), createK8sWatch with RetryOnError,   *)
(*           close (src/unnamed/part_002, src/unnamed/part_001).           *)
(*   Part 6  flattening of the config: createScaleUpResourceInfos and      *)
(*           createScaleDownResourceInfos (scaler.go).                     *)
(***************************************************************************)
EXTENDS Integers, Sequences, FiniteSets, TLC

VARIABLES
    \* ---- part 1: registry
    probers,      \* the manager's map: key -> entry, or NoProber
    mu,           \* holder of the manager's mutex, or NoThread
    pc,           \* per caller thread: where it is in its current call
    arg,          \* per caller thread: the key and the prober of the call
    ret,          \* per caller thread: the value the call returns
    wState,       \* per prober: "unborn", "created", "running", "closed"
    wNamespace,   \* per prober: its key
    wConfig,      \* per prober: its config name
    wInstalled,   \* per prober: Register returned true for it
    wCancelled,   \* per prober: its context is done
    wRemoved,     \* per prober: Unregister returned true for it
    \* ---- part 2 and 3: the scaler and one run of a scale flow
    resourceInfos,        \* the flattened records of one direction
    mismatchFn,           \* the direction's mismatch predicate: "up" or "down"
    loopVarPerIteration,  \* the build: a range variable is per iteration (Go >= 1.22) or per loop
    zeroDepSatisfied,     \* the runner: a dependency on the zero TaskID (no task) counts as returned
    scaleFlow,            \* the tasks of the compiled flow, in the order they were added
    runState,             \* "new", "compiled", "running", "done", "panicked"
    ctxDone,              \* the context handed to Run is cancelled
    taskState,            \* per task: "pending", "running", "returned"
    slots,                \* per task: the goroutines its task function started
    deployments,          \* the cluster: per workload name, the Deployment
    \* ---- part 4: one call of util.Retry
    numAttempts,          \* the numAttempts argument
    canRetry,             \* the canRetry argument: nil, or the errors it accepts
    retryCtxDone,         \* the ctx argument is done
    retryPc,              \* "loop", "backoff", "returned", "panicked"
    retryI,               \* the loop variable i
    retryLast,            \* the locals result and err
    retryCalls,           \* invocations of fn so far
    retryResult,          \* the RetryResult returned
    \* ---- part 5: one pod watcher of a weeder
    weederCtxDone,        \* pw.weeder.ctx is done
    pwPc,                 \* "create", "sleep", "select", "handle", "exited", "panicked"
    k8sWatch,             \* pw.k8sWatch: 0 (nil) or the watch it refers to
    watches,              \* per watch: created, result channel open, stopped
    pwEvent,              \* the event last received from the result channel
    pwHandlerErr,         \* what the last handler invocation returned
    \* ---- part 6: flattening the configuration
    dependentResourceInfos,   \* config.DependentResourceInfos
    scaleUpResourceInfos,     \* the result of createScaleUpResourceInfos
    scaleDownResourceInfos,   \* the result of createScaleDownResourceInfos
    configPc                  \* "new", "down", "flattened"

regVars == <<probers, mu, pc, arg, ret, wState, wNamespace, wConfig,
             wInstalled, wCancelled, wRemoved>>

flowVars == <<resourceInfos, mismatchFn, loopVarPerIteration, zeroDepSatisfied,
              scaleFlow, runState, ctxDone, taskState, slots, deployments>>

configVars == <<dependentResourceInfos, scaleUpResourceInfos,
                scaleDownResourceInfos, configPc>>

watchVars == <<weederCtxDone, pwPc, k8sWatch, watches, pwEvent, pwHandlerErr>>

retryVars == <<numAttempts, canRetry, retryCtxDone, retryPc, retryI, retryLast,
               retryCalls, retryResult>>

vars == <<probers, mu, pc, arg, ret, wState, wNamespace, wConfig,
          wInstalled, wCancelled, wRemoved,
          resourceInfos, mismatchFn, loopVarPerIteration, zeroDepSatisfied,
          scaleFlow, runState, ctxDone, taskState, slots, deployments,
          numAttempts, canRetry, retryCtxDone, retryPc, retryI, retryLast,
          retryCalls, retryResult,
          weederCtxDone, pwPc, k8sWatch, watches, pwEvent, pwHandlerErr,
          dependentResourceInfos, scaleUpResourceInfos, scaleDownResourceInfos,
          configPc>>

\* What an action of one part leaves alone in the other parts.
notRegVars    == <<flowVars, retryVars, watchVars, configVars>>
notFlowVars   == <<regVars, retryVars, watchVars, configVars>>
notRetryVars  == <<regVars, flowVars, watchVars, configVars>>
notWatchVars  == <<regVars, flowVars, retryVars, configVars>>
notConfigVars == <<regVars, flowVars, retryVars, watchVars>>

-----------------------------------------------------------------------------
(***************************************************************************)
(* Part 1: the prober registry.                                            *)
(***************************************************************************)

\* Number of probers constructed (NewProber) in one behaviour.
MaxWorkers == 2

Workers  == 1..MaxWorkers
Threads  == {"t1", "t2"}
Keys     == {"bingo", "bazingo"}
Configs  == {"bingo", "zingo"}
NoProber == [id |-> 0, config |-> "none"]
NoThread == "none"
NoArg    == [op |-> "none", key |-> "none", w |-> 0]
NoRet    == [set |-> FALSE, ok |-> FALSE, entry |-> NoProber, all |-> {}]

\* What a call returns: a boolean (Register, Unregister), a prober and whether
\* it was found (GetProber), or a snapshot of the entries (GetAllProbers).
RetBool(b)  == [set |-> TRUE, ok |-> b, entry |-> NoProber, all |-> {}]
RetEntry(e) == [set |-> TRUE, ok |-> e # NoProber, entry |-> e, all |-> {}]
RetAll(es)  == [set |-> TRUE, ok |-> TRUE, entry |-> NoProber, all |-> es]

\* The entry the map holds for prober w: Register takes the prober by value.
EntryOf(w) == [id |-> w, config |-> wConfig[w]]

\* Prober.IsClosed
IsClosed(w) == wState[w] = "closed"

NewManager ==
    /\ probers = [k \in Keys |-> NoProber]
    /\ mu = NoThread
    /\ pc = [t \in Threads |-> "idle"]
    /\ arg = [t \in Threads |-> NoArg]
    /\ ret = [t \in Threads |-> NoRet]
    /\ wState = [w \in Workers |-> "unborn"]
    /\ wNamespace = [w \in Workers |-> "none"]
    /\ wConfig = [w \in Workers |-> "none"]
    /\ wInstalled = [w \in Workers |-> FALSE]
    /\ wCancelled = [w \in Workers |-> FALSE]
    /\ wRemoved = [w \in Workers |-> FALSE]

\* No caller has used the registry.
RegistryUnused == NewManager

\* The next prober NewProber hands out, 0 when the bound is reached.
NextWorker ==
    IF \E w \in Workers : wState[w] = "unborn"
    THEN CHOOSE w \in Workers :
            wState[w] = "unborn" /\ \A v \in Workers : v < w => wState[v] # "unborn"
    ELSE 0

\* p := NewProber(k, &Config{Name: c}, ...); mgr.Register(*p) takes the lock.
RegisterLock(t, k, c) ==
    /\ pc[t] = "idle"
    /\ NextWorker # 0
    /\ mu = NoThread
    /\ LET w == NextWorker IN
        /\ wState' = [wState EXCEPT ![w] = "created"]
        /\ wNamespace' = [wNamespace EXCEPT ![w] = k]
        /\ wConfig' = [wConfig EXCEPT ![w] = c]
        /\ arg' = [arg EXCEPT ![t] = [op |-> "Register", key |-> k, w |-> w]]
    /\ mu' = t
    /\ ret' = [ret EXCEPT ![t] = NoRet]
    /\ pc' = [pc EXCEPT ![t] = "reg_locked"]
    /\ UNCHANGED notRegVars
    /\ UNCHANGED <<probers, wInstalled, wCancelled, wRemoved>>

\* Whether Register finds no entry under key k.
KeyAlwaysFree(k) == TRUE

KeyIsFree(k) == probers[k] = NoProber

\* Register's critical section: install only when the key has no entry, and
\* report whether it installed.
RegisterBody(t) ==
    /\ pc[t] = "reg_locked"
    /\ mu = t
    /\ LET k == arg[t].key
           w == arg[t].w
           installed == KeyIsFree(k)
       IN /\ probers' = IF installed THEN [probers EXCEPT ![k] = EntryOf(w)] ELSE probers
          /\ ret' = [ret EXCEPT ![t] = RetBool(installed)]
          /\ wInstalled' = [wInstalled EXCEPT ![w] = installed]
    /\ mu' = NoThread
    /\ pc' = [pc EXCEPT ![t] = "reg_done"]
    /\ UNCHANGED notRegVars
    /\ UNCHANGED <<arg, wState, wNamespace, wConfig, wCancelled, wRemoved>>

\* The caller starts the prober it installed (go p.Run()); a prober that was
\* not installed is dropped.
RegisterReturn(t) ==
    /\ pc[t] = "reg_done"
    /\ wState' = IF ret[t].ok
                 THEN [wState EXCEPT ![arg[t].w] = "running"]
                 ELSE wState
    /\ pc' = [pc EXCEPT ![t] = "idle"]
    /\ UNCHANGED notRegVars
    /\ UNCHANGED <<probers, mu, arg, ret, wNamespace, wConfig,
                   wInstalled, wCancelled, wRemoved>>

\* mgr.Unregister(k) takes the lock.
UnregisterLock(t, k) ==
    /\ pc[t] = "idle"
    /\ mu = NoThread
    /\ mu' = t
    /\ arg' = [arg EXCEPT ![t] = [op |-> "Unregister", key |-> k, w |-> 0]]
    /\ ret' = [ret EXCEPT ![t] = NoRet]
    /\ pc' = [pc EXCEPT ![t] = "unreg_locked"]
    /\ UNCHANGED notRegVars
    /\ UNCHANGED <<probers, wState, wNamespace, wConfig,
                   wInstalled, wCancelled, wRemoved>>

\* The contexts after Unregister found prober w under its key.
CancelNothing(w) == wCancelled

CancelWorker(w) == [wCancelled EXCEPT ![w] = TRUE]

\* Unregister, first half of the critical section: look the key up and, when
\* it has an entry, cancel that prober's context.
UnregisterLookup(t) ==
    /\ pc[t] = "unreg_locked"
    /\ mu = t
    /\ LET k == arg[t].key IN
        IF probers[k] = NoProber
        THEN /\ ret' = [ret EXCEPT ![t] = RetBool(FALSE)]
             /\ mu' = NoThread
             /\ pc' = [pc EXCEPT ![t] = "idle"]
             /\ UNCHANGED <<arg, wCancelled>>
        ELSE /\ arg' = [arg EXCEPT ![t].w = probers[k].id]
             /\ wCancelled' = CancelWorker(probers[k].id)
             /\ pc' = [pc EXCEPT ![t] = "unreg_remove"]
             /\ UNCHANGED <<ret, mu>>
    /\ UNCHANGED notRegVars
    /\ UNCHANGED <<probers, wState, wNamespace, wConfig, wInstalled, wRemoved>>

\* The map after Unregister removed key k.
RemoveAll(k) == [j \in Keys |-> NoProber]

RemoveKey(k) == [probers EXCEPT ![k] = NoProber]

\* Unregister, second half: remove the entry, unlock, report that it existed.
UnregisterRemove(t) ==
    /\ pc[t] = "unreg_remove"
    /\ mu = t
    /\ probers' = RemoveKey(arg[t].key)
    /\ wRemoved' = [wRemoved EXCEPT ![arg[t].w] = TRUE]
    /\ ret' = [ret EXCEPT ![t] = RetBool(TRUE)]
    /\ mu' = NoThread
    /\ pc' = [pc EXCEPT ![t] = "idle"]
    /\ UNCHANGED notRegVars
    /\ UNCHANGED <<arg, wState, wNamespace, wConfig, wInstalled, wCancelled>>

\* mgr.GetProber(k) takes the lock.
GetProberLock(t, k) ==
    /\ pc[t] = "idle"
    /\ mu = NoThread
    /\ mu' = t
    /\ arg' = [arg EXCEPT ![t] = [op |-> "GetProber", key |-> k, w |-> 0]]
    /\ ret' = [ret EXCEPT ![t] = NoRet]
    /\ pc' = [pc EXCEPT ![t] = "get_locked"]
    /\ UNCHANGED notRegVars
    /\ UNCHANGED <<probers, wState, wNamespace, wConfig,
                   wInstalled, wCancelled, wRemoved>>

\* GetProber's critical section: (prober, found), NoProber standing for not found.
GetProberBody(t) ==
    /\ pc[t] = "get_locked"
    /\ mu = t
    /\ ret' = [ret EXCEPT ![t] = RetEntry(probers[arg[t].key])]
    /\ mu' = NoThread
    /\ pc' = [pc EXCEPT ![t] = "idle"]
    /\ UNCHANGED notRegVars
    /\ UNCHANGED <<probers, arg, wState, wNamespace, wConfig,
                   wInstalled, wCancelled, wRemoved>>

\* mgr.GetAllProbers() takes the lock.
GetAllProbersLock(t) ==
    /\ pc[t] = "idle"
    /\ mu = NoThread
    /\ mu' = t
    /\ arg' = [arg EXCEPT ![t] = [op |-> "GetAllProbers", key |-> "none", w |-> 0]]
    /\ ret' = [ret EXCEPT ![t] = NoRet]
    /\ pc' = [pc EXCEPT ![t] = "all_locked"]
    /\ UNCHANGED notRegVars
    /\ UNCHANGED <<probers, wState, wNamespace, wConfig,
                   wInstalled, wCancelled, wRemoved>>

\* GetAllProbers' critical section: a snapshot of the entries.
GetAllProbersBody(t) ==
    /\ pc[t] = "all_locked"
    /\ mu = t
    /\ ret' = [ret EXCEPT ![t] = RetAll({probers[k] : k \in {j \in Keys : probers[j] # NoProber}})]
    /\ mu' = NoThread
    /\ pc' = [pc EXCEPT ![t] = "idle"]
    /\ UNCHANGED notRegVars
    /\ UNCHANGED <<probers, arg, wState, wNamespace, wConfig,
                   wInstalled, wCancelled, wRemoved>>

\* Whether a running prober leaves its loop now.
ExitNever(w) == FALSE

\* A prober that may leave its loop although nobody cancelled it.
ExitUncancelled(w) == TRUE

ShouldExit(w) == wCancelled[w]

\* The prober's own goroutine: a cancelled context ends the round and the
\* loop, and the prober is marked closed.
WorkerExit(w) ==
    /\ wState[w] = "running"
    /\ ShouldExit(w)
    /\ wState' = [wState EXCEPT ![w] = "closed"]
    /\ UNCHANGED notRegVars
    /\ UNCHANGED <<probers, mu, pc, arg, ret, wNamespace, wConfig,
                   wInstalled, wCancelled, wRemoved>>

NextRegistry ==
    \/ \E t \in Threads, k \in Keys, c \in Configs : RegisterLock(t, k, c)
    \/ \E t \in Threads : RegisterBody(t)
    \/ \E t \in Threads : RegisterReturn(t)
    \/ \E t \in Threads, k \in Keys : UnregisterLock(t, k)
    \/ \E t \in Threads : UnregisterLookup(t)
    \/ \E t \in Threads : UnregisterRemove(t)
    \/ \E t \in Threads, k \in Keys : GetProberLock(t, k)
    \/ \E t \in Threads : GetProberBody(t)
    \/ \E t \in Threads : GetAllProbersLock(t)
    \/ \E t \in Threads : GetAllProbersBody(t)
    \/ \E w \in Workers : WorkerExit(w)

-----------------------------------------------------------------------------
(***************************************************************************)
(* Part 2: the scaler's flow compilation (scaler.go).                      *)
(***************************************************************************)

\* Bounds of the configurations explored.
MaxRes      == 3    \* records in one list
MaxLevel    == 1    \* levels are 0..MaxLevel
MaxReplicas == 1    \* replica counts are 0..MaxReplicas
MaxPerLevel == 2    \* records of one level in a list that is run
MaxVaried   == 2    \* longest list run against missing or annotated Deployments
MaxCompileRes   == 4    \* records in one list that is only compiled
MaxCompileLevel == 3    \* their levels are 0..MaxCompileLevel

defaultMaxResourceScalingAttempts == 3

Levels   == 0..MaxLevel
Replicas == 0..MaxReplicas
Names    == 1..MaxRes

\* flow.TaskID: the zero value names no task; Add hands out fresh IDs.
ZeroTaskID == 0

\* scaleableResourceInfo
ResourceInfo(name, level, replicas) ==
    [ref |-> name, level |-> level, initialDelay |-> 0, timeout |-> 0, replicas |-> replicas]

NoResourceInfo == ResourceInfo(0, 0, 0)

\* The builtin copy(dst, src): min(len(dst), len(src)) elements are copied and
\* dst keeps its length.
copy(dst, src) ==
    [i \in 1..Len(dst) |-> IF i <= Len(src) THEN src[i] ELSE dst[i]]

\* sort.Ints
RECURSIVE sortInts(_)
sortInts(s) ==
    IF Len(s) = 0 THEN <<>>
    ELSE LET m == CHOOSE i \in 1..Len(s) :
                      \A j \in 1..Len(s) : s[i] < s[j] \/ (s[i] = s[j] /\ i <= j)
             rest == [k \in 1..(Len(s) - 1) |-> IF k < m THEN s[k] ELSE s[k + 1]]
         IN <<s[m]>> \o sortInts(rest)

\* The loop of sortAndGetUniqueLevels: a level is appended when first seen.
RECURSIVE appendNewLevels(_, _, _)
appendNewLevels(infos, i, levels) ==
    IF i > Len(infos) THEN levels
    ELSE appendNewLevels(infos, i + 1,
            IF \E j \in 1..Len(levels) : levels[j] = infos[i].level
            THEN levels
            ELSE Append(levels, infos[i].level))

\* A sortAndGetUniqueLevels that forgets the keys map: every record's level.
sortAndGetAllLevels(infos) == sortInts([i \in 1..Len(infos) |-> infos[i].level])

sortAndGetUniqueLevels(infos) == sortInts(appendNewLevels(infos, 1, <<>>))

\* collectResourceInfosByLevel: level -> its records, in input order.
collectResourceInfosByLevel(infos) ==
    [l \in {infos[i].level : i \in 1..Len(infos)} |->
        SelectSeq(infos, LAMBDA r : r.level = l)]

\* Task functions.  NilFn is a nil flow.TaskFn; ScaleFn is the closure that
\* createScaleTaskFn builds for one record; ParallelFn is flow.Parallel(fns...).
NilFn == [kind |-> "nil", res |-> NoResourceInfo, waitOn |-> <<>>, fns |-> <<>>]

ScaleFn(res, waitOn) == [kind |-> "scale", res |-> res, waitOn |-> waitOn, fns |-> <<>>]

ParallelFn(fns) == [kind |-> "parallel", res |-> NoResourceInfo, waitOn |-> <<>>, fns |-> fns]

\* The record a closure built in iteration i of `for _, resourceInfo := range
\* resourceInfos` sees when it runs later: its own, or, when the range
\* variable is one per loop, the last one assigned.
capturedResourceInfo(infos, i) ==
    IF loopVarPerIteration THEN infos[i] ELSE infos[Len(infos)]

\* createScaleTaskFn: taskFns is made with len(resourceInfos) nil slots and the
\* closures are appended after them; one record returns taskFns[0], more
\* return flow.Parallel(taskFns...).
createScaleTaskFn(infos, waitOn) ==
    IF Len(infos) = 0 THEN NilFn
    ELSE LET n == Len(infos)
             taskFns == [i \in 1..(2 * n) |->
                            IF i <= n THEN NilFn
                            ELSE ScaleFn(capturedResourceInfo(infos, i - n), waitOn)]
         IN IF n = 1 THEN taskFns[1] ELSE ParallelFn(taskFns)

\* The loop of createResourceScaleFlow over the sorted levels.  g is the graph
\* (the tasks added so far), prev is previousLevelResourceInfos.  previousTaskID
\* is declared inside the loop body, so each task depends on the zero TaskID.
\* A task keeps, beside its function, the waitOnResourceInfos that
\* createScaleTaskFn was called with.
RECURSIVE addLevelTasks(_, _, _, _, _)
addLevelTasks(levels, ordered, i, g, prev) ==
    IF i > Len(levels) THEN g
    ELSE LET level == levels[i]
             previousTaskID == ZeroTaskID
         IN IF level \in DOMAIN ordered
            THEN LET resInfos == ordered[level]
                     taskID == Len(g) + 1
                     task == [id |-> taskID,
                              level |-> level,
                              fn |-> createScaleTaskFn(resInfos, prev),
                              waitOn |-> prev,
                              dependencies |-> {previousTaskID}]
                 IN addLevelTasks(levels, ordered, i + 1, Append(g, task),
                                  copy(prev, resInfos))
            ELSE addLevelTasks(levels, ordered, i + 1, g, prev)

\* createResourceScaleFlow: the tasks of the graph it compiles.
createResourceScaleFlow(infos) ==
    addLevelTasks(sortAndGetUniqueLevels(infos), collectResourceInfosByLevel(infos),
                  1, <<>>, <<>>)

\* util.ScaleUpReplicasMismatch / util.ScaleDownReplicasMismatch
ScaleUpReplicasMismatch(replicas, targetReplicas) == replicas < targetReplicas

ScaleDownReplicasMismatch(replicas, targetReplicas) == replicas > targetReplicas

mismatchReplicas(replicas, targetReplicas) ==
    IF mismatchFn = "up"
    THEN ScaleUpReplicasMismatch(replicas, targetReplicas)
    ELSE ScaleDownReplicasMismatch(replicas, targetReplicas)

\* A Deployment as the scaler reads it; NoDeployment is "not found".
Deployment(annotation, spec, status) ==
    [exists |-> TRUE, annotation |-> annotation, spec |-> spec, status |-> status]

NoDeployment == [exists |-> FALSE, annotation |-> "none", spec |-> 0, status |-> 0]

\* Values of the ignore-scaling annotation: not set, "true", "false".
Annotations == {"none", "true", "false"}

isIgnoreScalingAnnotationSet(deployment) == deployment.annotation = "true"

\* shouldScale without its first check.
shouldScaleIgnoringAnnotation(deployment, targetReplicas, waitOn) ==
    /\ mismatchReplicas(deployment.spec, targetReplicas)
    /\ \A j \in 1..Len(waitOn) :
          /\ deployments[waitOn[j].ref].exists
          /\ ~mismatchReplicas(deployments[waitOn[j].ref].status, waitOn[j].replicas)

\* shouldScale without its second check.
shouldScaleIgnoringSpec(deployment, targetReplicas, waitOn) ==
    /\ ~isIgnoreScalingAnnotationSet(deployment)
    /\ \A j \in 1..Len(waitOn) :
          /\ deployments[waitOn[j].ref].exists
          /\ ~mismatchReplicas(deployments[waitOn[j].ref].status, waitOn[j].replicas)

\* shouldScale: not when the annotation opts out, not when the spec replicas
\* already satisfy the target, not while an upstream of waitOn is missing or
\* its status replicas mismatch its target.
shouldScale(deployment, targetReplicas, waitOn) ==
    /\ ~isIgnoreScalingAnnotationSet(deployment)
    /\ mismatchReplicas(deployment.spec, targetReplicas)
    /\ \A j \in 1..Len(waitOn) :
          /\ deployments[waitOn[j].ref].exists
          /\ ~mismatchReplicas(deployments[waitOn[j].ref].status, waitOn[j].replicas)

-----------------------------------------------------------------------------
(***************************************************************************)
(* Part 3: one run of a compiled scale flow.                               *)
(***************************************************************************)

\* The goroutine started for one function of a task.  pc:
\*   "nil"          about to call a nil TaskFn
\*   "retry"        at the top of the outer Retry loop, attempt oi
\*   "delay"        in scale(), sleeping initialDelay with the Deployment dep
\*   "backoff"      in the outer Retry's backoff select after attempt oi
\*   "scaleRetry"   at the top of the inner Retry loop (doScale), attempt ii
\*   "scaleBackoff" in the inner Retry's backoff select after attempt ii
\*   "returned"     the task function has returned err
\* updated records that the goroutine has issued an Update.
NewSlot(fn) ==
    [kind |-> fn.kind, res |-> fn.res, waitOn |-> fn.waitOn,
     pc |-> IF fn.kind = "nil" THEN "nil" ELSE "retry",
     oi |-> 1, ii |-> 1, dep |-> NoDeployment, err |-> "nil", updated |-> FALSE,
     timedOut |-> FALSE]

\* The goroutines a task function starts: itself, or one per function of a
\* flow.Parallel.
SlotsOf(fn) ==
    IF fn.kind = "parallel" THEN [i \in 1..Len(fn.fns) |-> NewSlot(fn.fns[i])]
    ELSE <<NewSlot(fn)>>

TaskIDs == 1..Len(scaleFlow)

\* The flattened records of one direction: 1..MaxRes workloads, named by
\* position, each at some level, all with the direction's target replicas.
ResourceInfoLists(maxRes, levels) ==
    UNION {{[i \in 1..n |-> ResourceInfo(i, lv[i], target)] : lv \in [1..n -> levels]}
           : <<n, target>> \in (1..maxRes) \X Replicas}

\* The lists a flow is run for: no level holds more than MaxPerLevel records.
RunLists ==
    {infos \in ResourceInfoLists(MaxRes, Levels) :
        \A l \in Levels :
            Cardinality({i \in 1..Len(infos) : infos[i].level = l}) <= MaxPerLevel}

\* The Deployments of a cluster for the workloads 1..n, status having caught
\* up with spec: each exists without the annotation, or, for a list of at
\* most MaxVaried records, is missing or exists with any annotation.
Clusters(n) ==
    IF n <= MaxVaried
    THEN [1..n -> {NoDeployment} \cup
                  {Deployment(a, r, r) : <<a, r>> \in Annotations \X Replicas}]
    ELSE [1..n -> {Deployment("none", r, r) : r \in Replicas}]

FlowUnused ==
    /\ resourceInfos = <<>>
    /\ mismatchFn = "up"
    /\ loopVarPerIteration = TRUE
    /\ zeroDepSatisfied = TRUE
    /\ scaleFlow = <<>>
    /\ runState = "unused"
    /\ ctxDone = FALSE
    /\ taskState = <<>>
    /\ slots = <<>>
    /\ deployments = <<>>

FlowInputs ==
    /\ resourceInfos \in RunLists
    /\ mismatchFn \in {"up", "down"}
    /\ loopVarPerIteration \in BOOLEAN
    /\ zeroDepSatisfied \in BOOLEAN
    /\ scaleFlow = <<>>
    /\ runState = "new"
    /\ ctxDone = FALSE
    /\ taskState = <<>>
    /\ slots = <<>>
    /\ deployments \in Clusters(Len(resourceInfos))

\* A scaler that is only constructed: any list, no cluster behind it.
CompileInputs ==
    /\ resourceInfos \in ResourceInfoLists(MaxCompileRes, 0..MaxCompileLevel)
    /\ mismatchFn \in {"up", "down"}
    /\ loopVarPerIteration \in BOOLEAN
    /\ zeroDepSatisfied = TRUE
    /\ scaleFlow = <<>>
    /\ runState = "new"
    /\ ctxDone = FALSE
    /\ taskState = <<>>
    /\ slots = <<>>
    /\ deployments = <<>>

\* NewDeploymentScaler: the flow of the direction is compiled at construction.
NewDeploymentScaler ==
    /\ runState = "new"
    /\ scaleFlow' = createResourceScaleFlow(resourceInfos)
    /\ runState' = "compiled"
    /\ UNCHANGED notFlowVars
    /\ UNCHANGED <<resourceInfos, mismatchFn, loopVarPerIteration, zeroDepSatisfied,
                   ctxDone, taskState, slots, deployments>>

\* ScaleUp / ScaleDown: flow.Run(ctx, flow.Opts{}) begins.
FlowRun ==
    /\ runState = "compiled"
    /\ runState' = "running"
    /\ taskState' = [id \in TaskIDs |-> "pending"]
    /\ slots' = [id \in TaskIDs |-> <<>>]
    /\ UNCHANGED notFlowVars
    /\ UNCHANGED <<resourceInfos, mismatchFn, loopVarPerIteration, zeroDepSatisfied,
                   scaleFlow, ctxDone, deployments>>

\* Whether a declared dependency of a task no longer holds it back.
DependencyReturned(d) ==
    IF d \in TaskIDs THEN taskState[d] = "returned" ELSE zeroDepSatisfied

\* The runner starts a task once all its declared dependencies have returned
\* and the context is not cancelled; the task function starts its goroutines.
TaskStart(id) ==
    /\ runState = "running"
    /\ ~ctxDone
    /\ taskState[id] = "pending"
    /\ \A d \in scaleFlow[id].dependencies : DependencyReturned(d)
    /\ taskState' = [taskState EXCEPT ![id] = "running"]
    /\ slots' = [slots EXCEPT ![id] = SlotsOf(scaleFlow[id].fn)]
    /\ UNCHANGED notFlowVars
    /\ UNCHANGED <<resourceInfos, mismatchFn, loopVarPerIteration, zeroDepSatisfied,
                   scaleFlow, runState, ctxDone, deployments>>

\* Goroutine i of the running task id is at the given point.
Running(id, i, at) ==
    /\ runState = "running"
    /\ id \in TaskIDs
    /\ taskState[id] = "running"
    /\ i \in 1..Len(slots[id])
    /\ slots[id][i].pc = at

\* Calling a nil function panics; nothing recovers it, so the process ends
\* with all its goroutines.
NilCall(id, i) ==
    /\ Running(id, i, "nil")
    /\ runState' = "panicked"
    /\ taskState' = [t \in TaskIDs |-> "pending"]
    /\ slots' = [t \in TaskIDs |-> <<>>]
    /\ UNCHANGED notFlowVars
    /\ UNCHANGED <<resourceInfos, mismatchFn, loopVarPerIteration, zeroDepSatisfied,
                   scaleFlow, ctxDone, deployments>>

\* Goroutine i of task id moves on to slot; the task returns with its last
\* goroutine.
SlotStep(id, i, slot) ==
    /\ slots' = [slots EXCEPT ![id][i] = slot]
    /\ taskState' =
          IF \A j \in 1..Len(slots[id]) : slots'[id][j].pc = "returned"
          THEN [taskState EXCEPT ![id] = "returned"]
          ELSE taskState

\* util.GetDeploymentFor
GetDeploymentFor(name) == deployments[name]

\* Outer Retry (createScaleTaskFn), one pass of the loop body up to the
\* backoff: the context check, then fn = scale(), which first fetches the
\* Deployment; a fetch error is scale's error, and AlwaysRetry retries it.
RetryAttempt(id, i) ==
    /\ Running(id, i, "retry")
    /\ LET s == slots[id][i]
           deployment == GetDeploymentFor(s.res.ref)
       IN IF ctxDone
          THEN SlotStep(id, i, [s EXCEPT !.pc = "returned", !.err = "context canceled"])
          ELSE IF ~deployment.exists
          THEN SlotStep(id, i, [s EXCEPT !.pc = "backoff", !.err = "not found"])
          ELSE SlotStep(id, i, [s EXCEPT !.pc = "delay", !.dep = deployment])
    /\ UNCHANGED notFlowVars
    /\ UNCHANGED <<resourceInfos, mismatchFn, loopVarPerIteration, zeroDepSatisfied,
                   scaleFlow, runState, ctxDone, deployments>>

\* scale(): util.SleepWithContext(ctx, initialDelay) ends, by cancellation
\* (scale returns the error, which Retry retries) or by the timer; then
\* shouldScale decides between the inner Retry of doScale and returning nil.
InitialDelay(id, i, cancelled) ==
    /\ Running(id, i, "delay")
    /\ cancelled => ctxDone
    /\ LET s == slots[id][i] IN
          IF cancelled
          THEN SlotStep(id, i, [s EXCEPT !.pc = "backoff", !.err = "context canceled"])
          ELSE IF shouldScale(s.dep, s.res.replicas, s.waitOn)
          THEN SlotStep(id, i, [s EXCEPT !.pc = "scaleRetry", !.ii = 1])
          ELSE SlotStep(id, i, [s EXCEPT !.pc = "returned", !.err = "nil"])
    /\ UNCHANGED notFlowVars
    /\ UNCHANGED <<resourceInfos, mismatchFn, loopVarPerIteration, zeroDepSatisfied,
                   scaleFlow, runState, ctxDone, deployments>>

\* Outer Retry, the select after a failed attempt: the context's error when
\* it is done, else after the backoff the next attempt, or, when that was the
\* last one, the loop ends and the last error is returned.
RetryBackoff(id, i, cancelled) ==
    /\ Running(id, i, "backoff")
    /\ cancelled => ctxDone
    /\ LET s == slots[id][i] IN
          IF cancelled
          THEN SlotStep(id, i, [s EXCEPT !.pc = "returned", !.err = "context canceled"])
          ELSE IF s.oi < defaultMaxResourceScalingAttempts
          THEN SlotStep(id, i, [s EXCEPT !.pc = "retry", !.oi = s.oi + 1])
          ELSE SlotStep(id, i, [s EXCEPT !.pc = "returned"])
    /\ UNCHANGED notFlowVars
    /\ UNCHANGED <<resourceInfos, mismatchFn, loopVarPerIteration, zeroDepSatisfied,
                   scaleFlow, runState, ctxDone, deployments>>

\* What one call of doScale can come to: the mapping or the scale Get fails
\* before any Update; the Update is issued and fails; the Update is applied.
DoScaleOutcomes == {"get failed", "update failed", "updated"}

\* Inner Retry (scale), one pass of the loop body up to the backoff: the
\* context check, then doScale.  scale() drops the Retry's result and returns
\* nil, so the outer Retry returns nil as soon as the inner one returns.
ScaleAttempt(id, i, outcome) ==
    /\ Running(id, i, "scaleRetry")
    /\ LET s == slots[id][i] IN
          IF ctxDone
          THEN /\ SlotStep(id, i, [s EXCEPT !.pc = "returned", !.err = "nil"])
               /\ UNCHANGED deployments
          ELSE IF outcome = "updated"
          THEN /\ SlotStep(id, i, [s EXCEPT !.pc = "returned", !.err = "nil",
                                            !.updated = TRUE])
               /\ deployments' = [deployments EXCEPT ![s.res.ref].spec = s.res.replicas]
          ELSE /\ SlotStep(id, i, [s EXCEPT !.pc = "scaleBackoff",
                                            !.updated = s.updated \/ outcome = "update failed"])
               /\ UNCHANGED deployments
    /\ UNCHANGED notFlowVars
    /\ UNCHANGED <<resourceInfos, mismatchFn, loopVarPerIteration, zeroDepSatisfied,
                   scaleFlow, runState, ctxDone>>

\* A scale() that returns the error of its inner Retry.
ScaleBackoffReportingError(id, i, cancelled) ==
    /\ Running(id, i, "scaleBackoff")
    /\ cancelled => ctxDone
    /\ LET s == slots[id][i] IN
          IF ~cancelled /\ s.ii < defaultMaxResourceScalingAttempts
          THEN SlotStep(id, i, [s EXCEPT !.pc = "scaleRetry", !.ii = s.ii + 1])
          ELSE SlotStep(id, i, [s EXCEPT !.pc = "backoff", !.err = "scale failed"])
    /\ UNCHANGED notFlowVars
    /\ UNCHANGED <<resourceInfos, mismatchFn, loopVarPerIteration, zeroDepSatisfied,
                   scaleFlow, runState, ctxDone, deployments>>

\* Inner Retry, the select after a failed doScale.
ScaleBackoff(id, i, cancelled) ==
    /\ Running(id, i, "scaleBackoff")
    /\ cancelled => ctxDone
    /\ LET s == slots[id][i] IN
          IF ~cancelled /\ s.ii < defaultMaxResourceScalingAttempts
          THEN SlotStep(id, i, [s EXCEPT !.pc = "scaleRetry", !.ii = s.ii + 1])
          ELSE SlotStep(id, i, [s EXCEPT !.pc = "returned", !.err = "nil"])
    /\ UNCHANGED notFlowVars
    /\ UNCHANGED <<resourceInfos, mismatchFn, loopVarPerIteration, zeroDepSatisfied,
                   scaleFlow, runState, ctxDone, deployments>>

\* The prober's context is cancelled (Unregister) while the flow is set up or runs.
CtxCancel ==
    /\ runState \in {"compiled", "running"}
    /\ ~ctxDone
    /\ ctxDone' = TRUE
    /\ UNCHANGED notFlowVars
    /\ UNCHANGED <<resourceInfos, mismatchFn, loopVarPerIteration, zeroDepSatisfied,
                   scaleFlow, runState, taskState, slots, deployments>>

\* The deployment controller brings a workload's status replicas to its spec.
StatusConverges(name) ==
    /\ runState = "running"
    /\ name \in DOMAIN deployments
    /\ deployments[name].exists
    /\ deployments[name].status # deployments[name].spec
    /\ deployments' = [deployments EXCEPT ![name].status = deployments[name].spec]
    /\ UNCHANGED notFlowVars
    /\ UNCHANGED <<resourceInfos, mismatchFn, loopVarPerIteration, zeroDepSatisfied,
                   scaleFlow, runState, ctxDone, taskState, slots>>

\* Run returns: no task is running and none can start any more.
FlowFinish ==
    /\ runState = "running"
    /\ \A id \in TaskIDs : taskState[id] # "running"
    /\ \/ ctxDone
       \/ \A id \in TaskIDs : taskState[id] = "returned"
    /\ runState' = "done"
    /\ UNCHANGED notFlowVars
    /\ UNCHANGED <<resourceInfos, mismatchFn, loopVarPerIteration, zeroDepSatisfied,
                   scaleFlow, ctxDone, taskState, slots, deployments>>

NextFlow ==
    \/ NewDeploymentScaler
    \/ FlowRun
    \/ \E id \in DOMAIN taskState : TaskStart(id)
    \/ \E id \in DOMAIN slots : \E i \in DOMAIN slots[id] : NilCall(id, i)
    \/ \E id \in DOMAIN slots : \E i \in DOMAIN slots[id] : RetryAttempt(id, i)
    \/ \E id \in DOMAIN slots : \E i \in DOMAIN slots[id] : \E c \in BOOLEAN : InitialDelay(id, i, c)
    \/ \E id \in DOMAIN slots : \E i \in DOMAIN slots[id] : \E c \in BOOLEAN : RetryBackoff(id, i, c)
    \/ \E id \in DOMAIN slots : \E i \in DOMAIN slots[id] : \E o \in DoScaleOutcomes : ScaleAttempt(id, i, o)
    \/ \E id \in DOMAIN slots : \E i \in DOMAIN slots[id] : \E c \in BOOLEAN : ScaleBackoff(id, i, c)
    \/ CtxCancel
    \/ \E name \in Names : StatusConverges(name)
    \/ FlowFinish

\* Lists of the runs in which the passing of time is followed.
MaxTimedRes == 2

\* Time passes: r.timeout has elapsed since scale action i of task id started.
\* Nothing in the scaler reads r.timeout, so this changes nothing else.
TimeoutElapses(id, i) ==
    /\ runState = "running"
    /\ id \in TaskIDs
    /\ taskState[id] = "running"
    /\ i \in 1..Len(slots[id])
    /\ slots[id][i].kind = "scale"
    /\ slots[id][i].pc # "returned"
    /\ ~slots[id][i].timedOut
    /\ slots' = [slots EXCEPT ![id][i].timedOut = TRUE]
    /\ UNCHANGED notFlowVars
    /\ UNCHANGED <<resourceInfos, mismatchFn, loopVarPerIteration, zeroDepSatisfied,
                   scaleFlow, runState, ctxDone, taskState, deployments>>

\* A run, with the passing of time, of a flow whose tasks the runner starts,
\* for a short list whose workloads all exist and carry no annotation.
FlowInputsTimed ==
    /\ FlowInputs
    /\ Len(resourceInfos) <= MaxTimedRes
    /\ zeroDepSatisfied
    /\ \A n \in DOMAIN deployments :
          deployments[n].exists /\ ~isIgnoreScalingAnnotationSet(deployments[n])

NextFlowTimed ==
    \/ NextFlow
    \/ \E id \in DOMAIN slots : \E i \in DOMAIN slots[id] : TimeoutElapses(id, i)

-----------------------------------------------------------------------------
(***************************************************************************)
(* Part 4: one call of util.Retry (src/unnamed/part_001).                  *)
(***************************************************************************)

MaxAttempts == 3    \* numAttempts is 0..MaxAttempts

\* The errors fn can return, and the error of a done context.
Errors == {"e1", "e2"}

CtxErr == "context canceled"

\* What one invocation of fn returns: a value and a nil error, or the zero
\* value and an error.
ZeroValue == "zero"

FnOutcomes == {[value |-> "v", err |-> "nil"]} \cup
              {[value |-> ZeroValue, err |-> e] : e \in Errors}

\* The canRetry argument: a nil func, or a predicate given by the errors it
\* accepts (AlwaysRetry accepts them all).
NilCanRetry == [isNil |-> TRUE, accepts |-> {}]

CanRetryFns == {NilCanRetry} \cup {[isNil |-> FALSE, accepts |-> a] : a \in SUBSET Errors}

AlwaysRetry == [isNil |-> FALSE, accepts |-> Errors]

NoRetryResult == [set |-> FALSE, value |-> ZeroValue, err |-> "nil"]

\* A result that has lost the error.
RetryResultWithoutErr(value, err) == [set |-> TRUE, value |-> value, err |-> "nil"]

RetryResult(value, err) == [set |-> TRUE, value |-> value, err |-> err]

RetryUnused ==
    /\ numAttempts = 0
    /\ canRetry = AlwaysRetry
    /\ retryCtxDone = FALSE
    /\ retryPc = "unused"
    /\ retryI = 0
    /\ retryLast = [value |-> ZeroValue, err |-> "nil"]
    /\ retryCalls = 0
    /\ retryResult = NoRetryResult

\* Retry is entered: var result T; var err error; i := 1.
RetryEntry ==
    /\ numAttempts \in 0..MaxAttempts
    /\ canRetry \in CanRetryFns
    /\ retryCtxDone \in BOOLEAN
    /\ retryPc = "loop"
    /\ retryI = 1
    /\ retryLast = [value |-> ZeroValue, err |-> "nil"]
    /\ retryCalls = 0
    /\ retryResult = NoRetryResult

\* A loop that runs its body once more than numAttempts allows.
loopGuardOffByOne(i, n) == i <= n + 1

\* for i := 1; i <= numAttempts; i++
loopGuard(i, n) == i <= n

\* One pass of the loop body up to the backoff: the context check, the
\* invocation of fn, the return on success, the call of canRetry.
RetryIteration(out) ==
    /\ retryPc = "loop"
    /\ loopGuard(retryI, numAttempts)
    /\ IF retryCtxDone
       THEN /\ retryPc' = "returned"
            /\ retryResult' = RetryResult(ZeroValue, CtxErr)
            /\ UNCHANGED <<retryLast, retryCalls>>
       ELSE /\ retryLast' = out
            /\ retryCalls' = retryCalls + 1
            /\ IF out.err = "nil"
               THEN /\ retryPc' = "returned"
                    /\ retryResult' = RetryResult(out.value, out.err)
               ELSE IF canRetry.isNil
               THEN /\ retryPc' = "panicked"
                    /\ UNCHANGED retryResult
               ELSE IF out.err \notin canRetry.accepts
               THEN /\ retryPc' = "returned"
                    /\ retryResult' = RetryResult(ZeroValue, out.err)
               ELSE /\ retryPc' = "backoff"
                    /\ UNCHANGED retryResult
    /\ UNCHANGED <<numAttempts, canRetry, retryCtxDone, retryI>>
    /\ UNCHANGED notRetryVars

\* The select after a retriable error: the context's error when it is done,
\* else, the backoff over, i++.
RetryBackoffSelect(cancelled) ==
    /\ retryPc = "backoff"
    /\ cancelled => retryCtxDone
    /\ IF cancelled
       THEN /\ retryPc' = "returned"
            /\ retryResult' = RetryResult(ZeroValue, CtxErr)
            /\ UNCHANGED retryI
       ELSE /\ retryPc' = "loop"
            /\ retryI' = retryI + 1
            /\ UNCHANGED retryResult
    /\ UNCHANGED <<numAttempts, canRetry, retryCtxDone, retryLast, retryCalls>>
    /\ UNCHANGED notRetryVars

\* The loop has ended: return RetryResult{Value: result, Err: err}.
RetryLoopEnd ==
    /\ retryPc = "loop"
    /\ ~loopGuard(retryI, numAttempts)
    /\ retryPc' = "returned"
    /\ retryResult' = RetryResult(retryLast.value, retryLast.err)
    /\ UNCHANGED <<numAttempts, canRetry, retryCtxDone, retryI, retryLast, retryCalls>>
    /\ UNCHANGED notRetryVars

\* The caller's context is cancelled while Retry runs.
RetryCtxCancel ==
    /\ retryPc \in {"loop", "backoff"}
    /\ ~retryCtxDone
    /\ retryCtxDone' = TRUE
    /\ UNCHANGED <<numAttempts, canRetry, retryPc, retryI, retryLast, retryCalls,
                   retryResult>>
    /\ UNCHANGED notRetryVars

NextRetry ==
    \/ \E out \in FnOutcomes : RetryIteration(out)
    \/ \E cancelled \in BOOLEAN : RetryBackoffSelect(cancelled)
    \/ RetryLoopEnd
    \/ RetryCtxCancel

-----------------------------------------------------------------------------
(***************************************************************************)
(* Part 5: one pod watcher (src/unnamed/part_002) and the RetryOnError     *)
(* it creates its watch with (src/unnamed/part_001).                       *)
(***************************************************************************)

MaxWatches == 3    \* watches the API server grants in one behaviour

WatchIDs == 1..MaxWatches

\* pw.k8sWatch before the first successful creation.
NilWatch == 0

\* watch.Event: its Type and the dynamic type of its Object.
EventTypes == {"Added", "Modified", "Deleted", "Bookmark", "Error"}

ObjectTypes == {"Pod", "Status", "nil"}

Events == [type : EventTypes, object : ObjectTypes]

NoEvent == [type |-> "none", object |-> "nil"]

NoWatch == [created |-> FALSE, open |-> FALSE, stopped |-> FALSE]

\* A filter that looks at the object only.
canProcessAnyPodEvent(ev) == ev.object = "Pod"

\* canProcessEvent
canProcessEvent(ev) ==
    IF ev.type = "Added" \/ ev.type = "Modified"
    THEN ev.object = "Pod"
    ELSE FALSE

WatcherUnused ==
    /\ weederCtxDone = FALSE
    /\ pwPc = "unused"
    /\ k8sWatch = NilWatch
    /\ watches = [w \in WatchIDs |-> NoWatch]
    /\ pwEvent = NoEvent
    /\ pwHandlerErr = "none"

\* watch() is entered: close is deferred and createK8sWatch is called.
WatcherEntry ==
    /\ weederCtxDone \in BOOLEAN
    /\ pwPc = "create"
    /\ k8sWatch = NilWatch
    /\ watches = [w \in WatchIDs |-> NoWatch]
    /\ pwEvent = NoEvent
    /\ pwHandlerErr = "none"

\* The watch the next successful Watch call returns, 0 when the bound is reached.
NextWatch ==
    IF \E w \in WatchIDs : ~watches[w].created
    THEN CHOOSE w \in WatchIDs :
            ~watches[w].created /\ \A v \in WatchIDs : v < w => watches[v].created
    ELSE 0

\* A createK8sWatch that drops the watch it was given.
keepWatch(w) == k8sWatch

\* pw.k8sWatch = w
assignWatch(w) == w

\* One pass of RetryOnError's loop in createK8sWatch: return when the context
\* is done; else doCreateK8sWatch, on success pw.k8sWatch is set and
\* RetryOnError returns, on error it goes to sleep.
CreateAttempt(ok) ==
    /\ pwPc = "create"
    /\ ok => NextWatch # 0
    /\ IF weederCtxDone
       THEN /\ pwPc' = "select"
            /\ UNCHANGED <<k8sWatch, watches>>
       ELSE IF ok
       THEN /\ pwPc' = "select"
            /\ k8sWatch' = assignWatch(NextWatch)
            /\ watches' = [watches EXCEPT ![NextWatch] =
                              [created |-> TRUE, open |-> TRUE, stopped |-> FALSE]]
       ELSE /\ pwPc' = "sleep"
            /\ UNCHANGED <<k8sWatch, watches>>
    /\ UNCHANGED <<weederCtxDone, pwEvent, pwHandlerErr>>
    /\ UNCHANGED notWatchVars

\* time.Sleep(interval) in RetryOnError is over: continue.
CreateSleepEnd ==
    /\ pwPc = "sleep"
    /\ pwPc' = "create"
    /\ UNCHANGED <<weederCtxDone, k8sWatch, watches, pwEvent, pwHandlerErr>>
    /\ UNCHANGED notWatchVars

\* The select of watch() is entered with pw.k8sWatch nil: evaluating
\* pw.k8sWatch.ResultChan() is a call on a nil interface, which panics; the
\* deferred close finds nothing to stop.
SelectNilWatch ==
    /\ pwPc = "select"
    /\ k8sWatch = NilWatch
    /\ pwPc' = "panicked"
    /\ UNCHANGED <<weederCtxDone, k8sWatch, watches, pwEvent, pwHandlerErr>>
    /\ UNCHANGED notWatchVars

\* A close that stops nothing.
stopNothing(w) == watches

\* k8sWatch.Stop(): the watch is stopped and its result channel closed.
stopWatch(w) == [watches EXCEPT ![w].stopped = TRUE, ![w].open = FALSE]

\* case <-pw.weeder.ctx.Done(): return, and the deferred close() runs.
SelectCtxDone ==
    /\ pwPc = "select"
    /\ k8sWatch # NilWatch
    /\ weederCtxDone
    /\ pwPc' = "exited"
    /\ watches' = stopWatch(k8sWatch)
    /\ UNCHANGED <<weederCtxDone, k8sWatch, pwEvent, pwHandlerErr>>
    /\ UNCHANGED notWatchVars

\* case event, ok := <-pw.k8sWatch.ResultChan() with ok: the event is
\* filtered, and the handler is called with the Pod of an accepted event.
SelectEvent(ev) ==
    /\ pwPc = "select"
    /\ k8sWatch # NilWatch
    /\ watches[k8sWatch].open
    /\ pwEvent' = ev
    /\ pwPc' = IF canProcessEvent(ev) THEN "handle" ELSE "select"
    /\ UNCHANGED <<weederCtxDone, k8sWatch, watches, pwHandlerErr>>
    /\ UNCHANGED notWatchVars

\* case event, ok := <-pw.k8sWatch.ResultChan() with !ok: the channel is
\* closed, createK8sWatch is called again.
SelectClosed ==
    /\ pwPc = "select"
    /\ k8sWatch # NilWatch
    /\ ~watches[k8sWatch].open
    /\ pwPc' = "create"
    /\ UNCHANGED <<weederCtxDone, k8sWatch, watches, pwEvent, pwHandlerErr>>
    /\ UNCHANGED notWatchVars

\* A watcher that gives up when its handler returns an error.
HandlerErrorEndsWatch(err) ==
    /\ pwPc = "handle"
    /\ pwPc' = IF err THEN "exited" ELSE "select"
    /\ pwHandlerErr' = IF err THEN "err" ELSE "nil"
    /\ UNCHANGED <<weederCtxDone, k8sWatch, watches, pwEvent>>
    /\ UNCHANGED notWatchVars

\* eventHandlerFn returns; an error is logged.
HandlerReturn(err) ==
    /\ pwPc = "handle"
    /\ pwPc' = "select"
    /\ pwHandlerErr' = IF err THEN "err" ELSE "nil"
    /\ UNCHANGED <<weederCtxDone, k8sWatch, watches, pwEvent>>
    /\ UNCHANGED notWatchVars

\* The API server ends a watch: its result channel closes.
WatchCloses(w) ==
    /\ pwPc \in {"create", "sleep", "select", "handle"}
    /\ watches[w].open
    /\ watches' = [watches EXCEPT ![w].open = FALSE]
    /\ UNCHANGED <<weederCtxDone, pwPc, k8sWatch, pwEvent, pwHandlerErr>>
    /\ UNCHANGED notWatchVars

\* The weeder's context is cancelled or times out.
WeederCtxCancel ==
    /\ pwPc \in {"create", "sleep", "select", "handle"}
    /\ ~weederCtxDone
    /\ weederCtxDone' = TRUE
    /\ UNCHANGED <<pwPc, k8sWatch, watches, pwEvent, pwHandlerErr>>
    /\ UNCHANGED notWatchVars

NextWatcher ==
    \/ \E ok \in BOOLEAN : CreateAttempt(ok)
    \/ CreateSleepEnd
    \/ SelectNilWatch
    \/ SelectCtxDone
    \/ \E ev \in Events : SelectEvent(ev)
    \/ SelectClosed
    \/ \E err \in BOOLEAN : HandlerReturn(err)
    \/ \E w \in WatchIDs : WatchCloses(w)
    \/ WeederCtxCancel

-----------------------------------------------------------------------------
(***************************************************************************)
(* Part 6: flattening the configuration (scaler.go,                        *)
(* createScaleUpResourceInfos / createScaleDownResourceInfos).             *)
(***************************************************************************)

MaxDeps == 2    \* DependentResourceInfos in one config

\* The workloads a config can refer to.
Refs == {"mcm", "kcm"}

\* ScaleInfo of a validated config: every pointer field is set.
ScaleInfos == [level : Levels, initialDelay : {1, 2}, timeout : {1, 2}, replicas : Replicas]

\* DependentResourceInfo
DependentResourceInfos == [ref : Refs, scaleUpInfo : ScaleInfos, scaleDownInfo : ScaleInfos]

\* The configs: up to MaxDeps entries for distinct workloads.
DependentResourceInfoLists ==
    UNION {{deps \in [1..n -> DependentResourceInfos] :
               \A i \in 1..n : \A j \in 1..n : deps[i].ref = deps[j].ref => i = j}
           : n \in 1..MaxDeps}

\* The loop of createScaleUpResourceInfos from entry i on.
RECURSIVE appendScaleUpResourceInfos(_, _, _)
appendScaleUpResourceInfos(deps, i, infos) ==
    IF i > Len(deps) THEN infos
    ELSE LET depResInfo == deps[i]
             resInfo == [ref |-> depResInfo.ref,
                         level |-> depResInfo.scaleUpInfo.level,
                         initialDelay |-> depResInfo.scaleUpInfo.initialDelay,
                         timeout |-> depResInfo.scaleUpInfo.timeout,
                         replicas |-> depResInfo.scaleUpInfo.replicas]
         IN appendScaleUpResourceInfos(deps, i + 1, Append(infos, resInfo))

\* The loop of createScaleDownResourceInfos from entry i on.
RECURSIVE appendScaleDownResourceInfos(_, _, _)
appendScaleDownResourceInfos(deps, i, infos) ==
    IF i > Len(deps) THEN infos
    ELSE LET depResInfo == deps[i]
             resInfo == [ref |-> depResInfo.ref,
                         level |-> depResInfo.scaleDownInfo.level,
                         initialDelay |-> depResInfo.scaleDownInfo.initialDelay,
                         timeout |-> depResInfo.scaleDownInfo.timeout,
                         replicas |-> depResInfo.scaleDownInfo.replicas]
         IN appendScaleDownResourceInfos(deps, i + 1, Append(infos, resInfo))

createScaleDownResourceInfos(deps) == appendScaleDownResourceInfos(deps, 1, <<>>)

\* A createScaleUpResourceInfos that reads the ScaleDownInfo.
createScaleUpFromScaleDownInfo(deps) == appendScaleDownResourceInfos(deps, 1, <<>>)

createScaleUpResourceInfos(deps) == appendScaleUpResourceInfos(deps, 1, <<>>)

ConfigUnused ==
    /\ dependentResourceInfos = <<>>
    /\ scaleUpResourceInfos = <<>>
    /\ scaleDownResourceInfos = <<>>
    /\ configPc = "unused"

\* NewDeploymentScaler is entered with a validated config.
ConfigEntry ==
    /\ dependentResourceInfos \in DependentResourceInfoLists
    /\ scaleUpResourceInfos = <<>>
    /\ scaleDownResourceInfos = <<>>
    /\ configPc = "new"

\* NewDeploymentScaler: the records of the scale-down flow.
FlattenScaleDown ==
    /\ configPc = "new"
    /\ scaleDownResourceInfos' = createScaleDownResourceInfos(dependentResourceInfos)
    /\ configPc' = "down"
    /\ UNCHANGED <<dependentResourceInfos, scaleUpResourceInfos>>
    /\ UNCHANGED notConfigVars

\* NewDeploymentScaler: the records of the scale-up flow.
FlattenScaleUp ==
    /\ configPc = "down"
    /\ scaleUpResourceInfos' = createScaleUpResourceInfos(dependentResourceInfos)
    /\ configPc' = "flattened"
    /\ UNCHANGED <<dependentResourceInfos, scaleDownResourceInfos>>
    /\ UNCHANGED notConfigVars

NextConfig ==
    \/ FlattenScaleDown
    \/ FlattenScaleUp

-----------------------------------------------------------------------------
(***************************************************************************)
(* The specifications.                                                     *)
(***************************************************************************)

\* The initial states: the part that is not exercised stays as constructed.
InitRegistry == NewManager /\ FlowUnused /\ RetryUnused /\ WatcherUnused /\ ConfigUnused

InitFlow == RegistryUnused /\ FlowInputs /\ RetryUnused /\ WatcherUnused /\ ConfigUnused

InitFlowTimed == RegistryUnused /\ FlowInputsTimed /\ RetryUnused /\ WatcherUnused /\ ConfigUnused

InitCompile == RegistryUnused /\ CompileInputs /\ RetryUnused /\ WatcherUnused /\ ConfigUnused

InitRetry == RegistryUnused /\ FlowUnused /\ RetryEntry /\ WatcherUnused /\ ConfigUnused

InitWatcher == RegistryUnused /\ FlowUnused /\ RetryUnused /\ WatcherEntry /\ ConfigUnused

InitConfig == RegistryUnused /\ FlowUnused /\ RetryUnused /\ WatcherUnused /\ ConfigEntry

\* The registry under concurrent callers.
SpecRegistry ==
    InitRegistry /\ [][NextRegistry]_vars

\* Every goroutine that can take a step is scheduled: a caller that is inside
\* a call finishes it, and a running prober gets to observe its context.
FairRegistry ==
    /\ \A t \in Threads :
        WF_vars(RegisterBody(t) \/ RegisterReturn(t) \/ UnregisterLookup(t)
                \/ UnregisterRemove(t) \/ GetProberBody(t) \/ GetAllProbersBody(t))
    /\ \A w \in Workers : WF_vars(WorkerExit(w))

SpecRegistryFair == SpecRegistry /\ FairRegistry

\* One scaler: its flow is compiled and run once.
SpecFlow ==
    InitFlow /\ [][NextFlow]_vars

\* One run of a flow for a short list, with the timeouts of its records
\* running out at any point.
SpecFlowTimed ==
    InitFlowTimed /\ [][NextFlowTimed]_vars

\* The construction of a scaler alone, over all lists.
SpecCompile ==
    InitCompile /\ [][NewDeploymentScaler]_vars

\* One call of Retry, for every numAttempts, fn, canRetry and context.
SpecRetry ==
    InitRetry /\ [][NextRetry]_vars

\* One pod watcher, from the call of watch().
SpecWatcher ==
    InitWatcher /\ [][NextWatcher]_vars

\* The watcher's goroutine is scheduled, sleeps and handler calls end, and
\* a select with several ready cases picks each of them sooner or later.
FairWatcher ==
    /\ WF_vars(\E ok \in BOOLEAN : CreateAttempt(ok))
    /\ WF_vars(CreateSleepEnd)
    /\ WF_vars(SelectNilWatch)
    /\ SF_vars(SelectCtxDone)
    /\ WF_vars(\E err \in BOOLEAN : HandlerReturn(err))

SpecWatcherFair == SpecWatcher /\ FairWatcher

\* The same scheduling, but with nothing said about how long the interval
\* between creation attempts is: a sleep is not assumed to run out.
FairWatcherLongSleep ==
    /\ WF_vars(\E ok \in BOOLEAN : CreateAttempt(ok))
    /\ WF_vars(SelectNilWatch)
    /\ SF_vars(SelectCtxDone)
    /\ WF_vars(\E err \in BOOLEAN : HandlerReturn(err))

SpecWatcherLongSleep == SpecWatcher /\ FairWatcherLongSleep

\* The flattening of a validated config in NewDeploymentScaler.
SpecConfig ==
    InitConfig /\ [][NextConfig]_vars

-----------------------------------------------------------------------------
(***************************************************************************)
(* Properties of the registry.                                             *)
(***************************************************************************)

\* Thread t completes Register / Unregister / GetProber in this step.
RegisterCompletes(t) == pc[t] = "reg_locked" /\ pc'[t] = "reg_done"

UnregisterCompletes(t) == pc[t] \in {"unreg_locked", "unreg_remove"} /\ pc'[t] = "idle"

GetProberCompletes(t) == pc[t] = "get_locked" /\ pc'[t] = "idle"

\* C1: Register(w) installs w and returns true only if its key has no entry;
\* when the key has an entry it returns false and leaves the whole map,
\* configs included, as it was.  An entry changes only by an Unregister of its
\* key, so GetProber returns the first-registered prober until then.
C1_RegisterNeverOverwrites ==
    [][ /\ \A t \in Threads : RegisterCompletes(t) =>
              LET k == arg[t].key
                  w == arg[t].w
              IN /\ ret'[t] = RetBool(probers[k] = NoProber)
                 /\ probers[k] # NoProber => probers' = probers
                 /\ probers[k] = NoProber =>
                        probers' = [probers EXCEPT ![k] = [id |-> w, config |-> wConfig[w]]]
        /\ \A t \in Threads : GetProberCompletes(t) => ret'[t] = RetEntry(probers[arg[t].key])
        /\ \A k \in Keys :
              (probers[k] # NoProber /\ probers'[k] # probers[k]) =>
                  /\ probers'[k] = NoProber
                  /\ \E t \in Threads :
                        arg[t].op = "Unregister" /\ arg[t].key = k /\ UnregisterCompletes(t)
      ]_vars

\* C1's case: a second Register for a taken key, with another config, has
\* returned false and the first prober's entry is still there.
C1_Witness ==
    \E t \in Threads :
        /\ pc[t] = "reg_done" /\ ret[t] = RetBool(FALSE)
        /\ probers[arg[t].key] # NoProber
        /\ probers[arg[t].key].id # arg[t].w
        /\ probers[arg[t].key].config # wConfig[arg[t].w]

\* C2: Unregister(k) returns true exactly when k had an entry; when it
\* returns k has none; it changes no entry of another key, and nothing at all
\* when k had none.
C2_UnregisterRemovesOnlyItsKey ==
    [][ \A t \in Threads : UnregisterCompletes(t) =>
            LET k == arg[t].key IN
              /\ ret'[t] = RetBool(probers[k] # NoProber)
              /\ probers'[k] = NoProber
              /\ \A j \in Keys \ {k} : probers'[j] = probers[j]
              /\ probers[k] = NoProber => probers' = probers
      ]_vars

\* C2's case: Unregister has returned true for a key while another key keeps
\* its entry.
C2_Witness ==
    \E t \in Threads :
        /\ pc[t] = "idle" /\ arg[t].op = "Unregister" /\ ret[t] = RetBool(TRUE)
        /\ probers[arg[t].key] = NoProber
        /\ \E j \in Keys \ {arg[t].key} : probers[j] # NoProber

\* The probers of key k that were installed and have not closed.
LiveWorkers(k) == {w \in Workers : wNamespace[w] = k /\ wInstalled[w] /\ ~IsClosed(w)}

\* The probers of key k that were installed and whose context is not done.
ActiveWorkers(k) == {w \in Workers : wNamespace[w] = k /\ wInstalled[w] /\ ~wCancelled[w]}

C4_UnregisteredEventuallyClosed ==
    \A w \in Workers :
        /\ wRemoved[w] ~> IsClosed(w)
        /\ [](IsClosed(w) => []IsClosed(w))

\* C4's case: an unregistered prober has closed.
C4_Witness == \E w \in Workers : wRemoved[w] /\ IsClosed(w)

\* C5: no state has an installed prober missing from the map while its context
\* is not cancelled: the cancel signal precedes every observation of absence.
C5_CancelledBeforeAbsent ==
    \A w \in Workers :
        (wInstalled[w] /\ probers[wNamespace[w]].id # w) => wCancelled[w]

\* C5's case: GetProber has reported a key absent whose prober was removed.
C5_Witness ==
    \E t \in Threads :
        /\ pc[t] = "idle" /\ arg[t].op = "GetProber" /\ ret[t] = RetEntry(NoProber)
        /\ \E w \in Workers : wNamespace[w] = arg[t].key /\ wRemoved[w] /\ wCancelled[w]

\* The registry as a sequential object: what call a returns on map m, and the
\* map it leaves.
SeqRet(a, m) ==
    IF a.op = "Register" THEN RetBool(m[a.key] = NoProber)
    ELSE IF a.op = "Unregister" THEN RetBool(m[a.key] # NoProber)
    ELSE IF a.op = "GetProber" THEN RetEntry(m[a.key])
    ELSE RetAll({m[k] : k \in {j \in Keys : m[j] # NoProber}})

SeqMap(a, m) ==
    IF a.op = "Register" /\ m[a.key] = NoProber THEN [m EXCEPT ![a.key] = EntryOf(a.w)]
    ELSE IF a.op = "Unregister" THEN [m EXCEPT ![a.key] = NoProber]
    ELSE m

\* Thread t's call takes its result in this step.
Completes(t) == ret'[t].set /\ ~ret[t].set

\* Every call takes effect at one step between its invocation and its return:
\* at that step its result and the map are those of the sequential registry,
\* and the map changes at no other step.
LinearizationPoints ==
    /\ \A t \in Threads :
          Completes(t) => /\ ret'[t] = SeqRet(arg[t], probers)
                          /\ probers' = SeqMap(arg[t], probers)
    /\ probers' # probers => \E t \in Threads : Completes(t)

\* Two Register calls for one key that have both passed the critical section
\* and not yet returned did not both install, unless an Unregister removed
\* the prober of the one before the other installed.
OneRegisterWins ==
    \A t, u \in Threads :
        (/\ t # u
         /\ pc[t] = "reg_done" /\ pc[u] = "reg_done"
         /\ arg[t].key = arg[u].key
         /\ ~wRemoved[arg[t].w] /\ ~wRemoved[arg[u].w])
            => ~(ret[t].ok /\ ret[u].ok)

\* No two Unregister calls returned true for the same prober, and the prober
\* for which one returned true is cancelled.
OneUnregisterWins ==
    \A t \in Threads :
        (arg[t].op = "Unregister" /\ ret[t].set /\ ret[t].ok)
            => /\ wCancelled[arg[t].w]
               /\ \A u \in Threads \ {t} :
                     (arg[u].op = "Unregister" /\ ret[u].set /\ ret[u].ok)
                        => arg[u].w # arg[t].w

\* C22: the registry is linearizable: under any interleaving of the callers,
\* each call's result is the one the sequential registry gives at one step
\* within the call; of two concurrent Register calls for a key at most one
\* returns true (exactly one when the key is absent), and of two Unregister
\* calls finding the same prober exactly one returns true and the prober is
\* cancelled.
C22_Linearizable ==
    /\ [][LinearizationPoints]_vars
    /\ [](OneRegisterWins /\ OneUnregisterWins)

\* Two Register calls for the same key are in flight, one has installed its
\* prober and the other has not.
C22_Witness ==
    \E t, u \in Threads :
        /\ t # u
        /\ pc[t] = "reg_done" /\ pc[u] = "reg_done"
        /\ arg[t].key = arg[u].key
        /\ ret[t].ok /\ ~ret[u].ok
        /\ ~wRemoved[arg[t].w]
        /\ probers[arg[t].key] = EntryOf(arg[t].w)

\* Prober w was registered and Unregister has not reached it.
RegisteredAndKept(w) == wInstalled[w] /\ ~wCancelled[w]

\* Thread t takes a step of a Register, GetProber or GetAllProbers call.
ReadOrRegisterStep(t) ==
    /\ pc'[t] # pc[t]
    /\ arg'[t].op \in {"Register", "GetProber", "GetAllProbers"}

\* C28: a prober that was registered and for whose key Unregister has not been
\* called is the entry of its key, is what GetProber returns for the key, and
\* is not closed; no step of Register, GetProber or GetAllProbers cancels or
\* closes a prober.
C28_RegisteredIsFoundAndOpen ==
    /\ [](\A w \in Workers :
            RegisteredAndKept(w) =>
                /\ probers[wNamespace[w]] = EntryOf(w)
                /\ ~IsClosed(w))
    /\ [][\A t \in Threads :
            (Completes(t) /\ arg[t].op = "GetProber") =>
                \A w \in Workers :
                    (RegisteredAndKept(w) /\ wNamespace[w] = arg[t].key) =>
                        ret'[t] = RetEntry(EntryOf(w))]_vars
    /\ [][(\E t \in Threads : ReadOrRegisterStep(t)) =>
            /\ wCancelled' = wCancelled
            /\ \A w \in Workers : IsClosed(w)' = IsClosed(w)]_vars

\* GetProber has returned a registered prober that runs and is not closed,
\* while the other thread's Register for the same key was refused.
C28_Witness ==
    \E t, u \in Threads :
        /\ pc[t] = "idle" /\ arg[t].op = "GetProber" /\ ret[t].set /\ ret[t].ok
        /\ ret[t].entry.id \in Workers
        /\ RegisteredAndKept(ret[t].entry.id)
        /\ wState[ret[t].entry.id] = "running"
        /\ arg[u].op = "Register" /\ arg[u].key = arg[t].key
        /\ ret[u].set /\ ~ret[u].ok

-----------------------------------------------------------------------------
(***************************************************************************)
(* Properties of the scale flow.                                           *)
(***************************************************************************)

\* The step in which goroutine i of task id issues an Update (doScale gets as
\* far as scaler.Update, whether or not the API server accepts it).
IssuesUpdate(id, i) ==
    /\ Running(id, i, "scaleRetry")
    /\ ~ctxDone
    /\ \E o \in {"updated", "update failed"} : ScaleAttempt(id, i, o)

\* The scale actions (closures of createScaleTaskFn) started in task id.
ScaleActions(id) == {i \in DOMAIN slots[id] : slots[id][i].kind = "scale"}

\* The records of the nearest configured level below the level of task id.
PreviousLevelRecords(id) ==
    LET lower == {resourceInfos[j].level : j \in 1..Len(resourceInfos)}
                    \cap 0..(scaleFlow[id].level - 1)
    IN IF lower = {} THEN {}
       ELSE LET prev == CHOOSE l \in lower : \A m \in lower : m <= l
            IN {resourceInfos[j] : j \in {k \in 1..Len(resourceInfos) :
                                             resourceInfos[k].level = prev}}

\* C6: within one run of a compiled scale flow, no scale action of a higher
\* level has started while the task of a lower configured level has not
\* returned.
C6_LevelsRunInOrder ==
    \A a \in DOMAIN slots : \A b \in DOMAIN slots :
        (scaleFlow[a].level < scaleFlow[b].level /\ ScaleActions(b) # {})
            => taskState[a] = "returned"

\* C7: a task of a level that is not the lowest issues no Update while the
\* status replicas of a workload of the previous level mismatch that
\* workload's target.
C7_BarrierOnPreviousLevel ==
    [][\A id \in DOMAIN slots : \A i \in DOMAIN slots[id] :
          IssuesUpdate(id, i) =>
              \A r \in PreviousLevelRecords(id) :
                  deployments[r.ref].exists =>
                      ~mismatchReplicas(deployments[r.ref].status, r.replicas)]_vars

\* C8 (as stated): a scale action that has returned for a workload annotated
\* ignore-scaling="true" reports success.
C8_AnnotatedReportsSuccess ==
    \A id \in DOMAIN slots : \A i \in ScaleActions(id) :
        (/\ slots[id][i].pc = "returned"
         /\ deployments[slots[id][i].res.ref].annotation = "true")
            => slots[id][i].err = "nil"

\* C8 (amended): no Update is ever issued for a workload annotated
\* ignore-scaling="true", whatever its spec replicas and the target; and a
\* scale action that fetched such a workload and whose initial-delay sleep
\* was not cancelled returns success there and then, having issued no Update.
C8_AnnotatedNeverUpdated ==
    [][\A id \in DOMAIN slots : \A i \in DOMAIN slots[id] :
          /\ IssuesUpdate(id, i) =>
                deployments[slots[id][i].res.ref].annotation # "true"
          /\ (/\ Running(id, i, "delay")
              /\ isIgnoreScalingAnnotationSet(slots[id][i].dep)
              /\ InitialDelay(id, i, FALSE))
                => /\ slots'[id][i].pc = "returned"
                   /\ slots'[id][i].err = "nil"
                   /\ ~slots'[id][i].updated]_vars

\* A scale action returned success without an Update for an annotated
\* workload whose spec replicas mismatch the target.
C8_Witness ==
    \E id \in DOMAIN slots : \E i \in ScaleActions(id) :
        /\ slots[id][i].pc = "returned"
        /\ slots[id][i].err = "nil"
        /\ ~slots[id][i].updated
        /\ slots[id][i].dep.exists
        /\ slots[id][i].dep.annotation = "true"
        /\ mismatchReplicas(slots[id][i].dep.spec, slots[id][i].res.replicas)

\* C9: an Update is issued only when the fetched spec replicas mismatch the
\* target under the direction's predicate (up: current < target; down:
\* current > target); and no step of a scale-up flow lowers the spec replicas
\* of a workload, no step of a scale-down flow raises them.
C9_UpdateOnlyOnMismatch ==
    [][/\ \A id \in DOMAIN slots : \A i \in DOMAIN slots[id] :
             IssuesUpdate(id, i) =>
                 IF mismatchFn = "up"
                 THEN slots[id][i].dep.spec < slots[id][i].res.replicas
                 ELSE slots[id][i].dep.spec > slots[id][i].res.replicas
       /\ \A n \in DOMAIN deployments :
             IF mismatchFn = "up"
             THEN deployments'[n].spec >= deployments[n].spec
             ELSE deployments'[n].spec <= deployments[n].spec]_vars

\* A scale action returned without an Update for a plain workload whose spec
\* replicas differ from the target in the direction that is left alone.
C9_Witness ==
    \E id \in DOMAIN slots : \E i \in ScaleActions(id) :
        /\ slots[id][i].pc = "returned"
        /\ slots[id][i].err = "nil"
        /\ ~slots[id][i].updated
        /\ slots[id][i].dep.exists
        /\ slots[id][i].dep.annotation = "none"
        /\ slots[id][i].dep.spec # slots[id][i].res.replicas
        /\ ~mismatchReplicas(slots[id][i].dep.spec, slots[id][i].res.replicas)

\* C10: for every list and both directions, the compiled flow has exactly as
\* many tasks as the list has distinct levels.
C10_OneTaskPerLevel ==
    runState = "compiled" =>
        Len(scaleFlow) =
            Cardinality({resourceInfos[i].level : i \in 1..Len(resourceInfos)})

\* A flow compiled from a list in which levels repeat, are out of order and
\* leave a gap.
C10_Witness ==
    /\ runState = "compiled"
    /\ Len(scaleFlow) = 2
    /\ Len(resourceInfos) = 4
    /\ resourceInfos[1].level = 3
    /\ resourceInfos[2].level = 0
    /\ resourceInfos[3].level = 3

\* The records of the list at the given level, in input order.
RecordsAtLevel(l) == SelectSeq(resourceInfos, LAMBDA r : r.level = l)

\* C11: in the compiled flow the task of the lowest level declares no
\* dependency, and the task of every other level declares exactly one: the
\* task of the next lower configured level.
C11_ChainOfDependencies ==
    runState = "compiled" =>
        \A t \in 1..Len(scaleFlow) :
            scaleFlow[t].dependencies =
                IF \A u \in 1..Len(scaleFlow) : scaleFlow[u].level >= scaleFlow[t].level
                THEN {}
                ELSE {scaleFlow[u].id : u \in {v \in 1..Len(scaleFlow) :
                        /\ scaleFlow[v].level < scaleFlow[t].level
                        /\ \A w \in 1..Len(scaleFlow) :
                              scaleFlow[w].level < scaleFlow[t].level
                                  => scaleFlow[w].level <= scaleFlow[v].level}}

\* C12: the wait-on set passed to the task of a level is the list of the
\* records of the next lower configured level, in input order, and is empty
\* for the lowest level.
C12_WaitOnPreviousLevel ==
    runState = "compiled" =>
        \A t \in 1..Len(scaleFlow) :
            LET lower == {scaleFlow[u].level : u \in 1..Len(scaleFlow)}
                            \cap 0..(scaleFlow[t].level - 1)
            IN scaleFlow[t].waitOn =
                  IF lower = {} THEN <<>>
                  ELSE RecordsAtLevel(CHOOSE l \in lower : \A m \in lower : m <= l)

\* Scale action i of task id makes an API call in this step: the outer Retry
\* starts an attempt (scale fetches the workload), or the inner Retry calls
\* doScale (get scale, update scale).
MakesAPICall(id, i) ==
    /\ ~ctxDone
    /\ \/ slots[id][i].pc = "retry" /\ slots'[id][i].pc # "retry"
       \/ slots[id][i].pc = "scaleRetry" /\ slots'[id][i].pc # "scaleRetry"

\* C26: a scale action makes no API call (get workload, get scale, update
\* scale) and starts no retry attempt once its record's timeout has elapsed
\* since it started.
C26_NoCallAfterTimeout ==
    [][\A id \in DOMAIN slots : \A i \in DOMAIN slots[id] :
          (/\ slots[id][i].kind = "scale"
           /\ slots[id][i].timedOut
           /\ id \in DOMAIN slots'
           /\ i \in DOMAIN slots'[id])
              => ~MakesAPICall(id, i)]_vars

\* Goroutine i of task id is in the inner Retry of scale (the attempts of
\* doScale and the backoffs between them).
InDoScaleRetry(id, i) == slots[id][i].pc \in {"scaleRetry", "scaleBackoff"}

\* C29: a scale action never reports the outcome of the scale Update: its
\* error is nil, the error of fetching the workload, or that of a cancelled
\* context; once it is in the retry of doScale it starts no further attempt
\* of the outer Retry and, when that retry ends, all attempts failed
\* included, it returns nil.
C29_UpdateOutcomeNeverReported ==
    /\ [](\A id \in DOMAIN slots : \A i \in ScaleActions(id) :
            slots[id][i].err \in {"nil", "not found", "context canceled"})
    /\ [][\A id \in DOMAIN slots : \A i \in DOMAIN slots[id] :
            (/\ InDoScaleRetry(id, i)
             /\ id \in DOMAIN slots'
             /\ i \in DOMAIN slots'[id])
                => /\ slots'[id][i].oi = slots[id][i].oi
                   /\ \/ InDoScaleRetry(id, i)'
                      \/ /\ slots'[id][i].pc = "returned"
                         /\ slots'[id][i].err = "nil"]_vars

\* A scale action has returned nil at its first attempt after doScale failed
\* three times: the workload still has the replicas it had.
C29_Witness ==
    /\ ~ctxDone
    /\ \E id \in DOMAIN slots : \E i \in ScaleActions(id) :
          /\ slots[id][i].pc = "returned"
          /\ slots[id][i].err = "nil"
          /\ slots[id][i].oi = 1
          /\ slots[id][i].ii = defaultMaxResourceScalingAttempts
          /\ slots[id][i].updated
          /\ deployments[slots[id][i].res.ref].spec # slots[id][i].res.replicas

\* The scale actions a task function starts when it is called, as the records
\* they act on; a nil function among them starts none and panics.
StartsOnlyScaleActions(fn) ==
    IF fn.kind = "parallel"
    THEN \A j \in 1..Len(fn.fns) : fn.fns[j].kind = "scale"
    ELSE fn.kind = "scale"

StartedRecords(fn) ==
    IF fn.kind = "parallel"
    THEN [j \in 1..Len(fn.fns) |-> fn.fns[j].res]
    ELSE <<fn.res>>

\* C23: the function of the task compiled for a level is, for one record at
\* the level, that record's scale action, and for several, the parallel
\* composition of exactly those records' scale actions: it starts one scale
\* action per record of the level, each on its own record, and nothing else.
C23_TaskStartsEachRecordOnce ==
    runState = "compiled" =>
        \A t \in 1..Len(scaleFlow) :
            LET recs == RecordsAtLevel(scaleFlow[t].level)
                fn == scaleFlow[t].fn
            IN /\ StartsOnlyScaleActions(fn)
               /\ (Len(recs) > 1) = (fn.kind = "parallel")
               /\ Len(StartedRecords(fn)) = Len(recs)
               /\ \A j \in 1..Len(recs) :
                     Cardinality({m \in 1..Len(StartedRecords(fn)) :
                                     StartedRecords(fn)[m] = recs[j]}) = 1

\* C19: the scale action of a record whose workload does not exist issues no
\* Update, makes no second attempt and returns no error other than that of
\* a cancelled context.
C19_NotFoundIsSkipped ==
    \A id \in DOMAIN slots : \A i \in ScaleActions(id) :
        ~deployments[slots[id][i].res.ref].exists =>
            /\ ~slots[id][i].updated
            /\ slots[id][i].oi = 1
            /\ slots[id][i].pc = "returned" =>
                  slots[id][i].err \in {"nil", "context canceled"}

-----------------------------------------------------------------------------
(***************************************************************************)
(* Properties of Retry.                                                    *)
(***************************************************************************)

\* C13: one call of Retry invokes fn at most numAttempts times.
C13_AtMostNumAttemptsCalls == retryCalls <= numAttempts

\* Retry has returned after fn failed numAttempts times with retriable errors.
C13_Witness ==
    /\ retryPc = "returned"
    /\ numAttempts = MaxAttempts
    /\ retryCalls = numAttempts
    /\ retryResult.err \in Errors

\* C14: Retry does not wait the backoff after its final attempt: it is never
\* in the backoff select after the numAttempts-th invocation of fn.
C14_NoBackoffAfterFinalAttempt ==
    ~(retryPc = "backoff" /\ retryCalls = numAttempts)

\* C15: Retry called with a context that is already done returns the
\* context's error, and does not invoke fn.
C15_DoneContextReturnsItsError ==
    (retryCtxDone /\ retryCalls = 0 /\ retryPc = "returned")
        => retryResult.err = CtxErr

\* fn is invoked in this step; retryLast' is what it returns.
FnInvoked == retryCalls' = retryCalls + 1

\* An invocation that succeeds, or whose error canRetry rejects, makes Retry
\* return at once, with the value and a nil error, or with that error.
StopsAtFirstDecisiveInvocation ==
    FnInvoked =>
        /\ retryLast'.err = "nil" =>
              /\ retryPc' = "returned"
              /\ retryResult' = RetryResult(retryLast'.value, "nil")
        /\ (/\ retryLast'.err # "nil"
            /\ ~canRetry.isNil
            /\ retryLast'.err \notin canRetry.accepts) =>
              /\ retryPc' = "returned"
              /\ retryResult'.set
              /\ retryResult'.err = retryLast'.err

\* Nothing happens after Retry has returned.
ReturnIsFinal == retryPc = "returned" => UNCHANGED retryVars

\* Retry returned after fn failed for the numAttempts-th time and the context
\* is not done.
ReturnedAfterLastFailure ==
    /\ retryPc = "returned"
    /\ ~retryCtxDone
    /\ numAttempts >= 1
    /\ retryCalls = numAttempts
    /\ retryLast.err \in Errors

\* C24: Retry stops at the first invocation of fn that succeeds or whose
\* error canRetry rejects: it returns in that step, without a backoff or a
\* further invocation, the success value with a nil error or that error; and
\* when the numAttempts-th invocation fails and the context is not done, the
\* error returned is the error of that invocation.
C24_StopsAtFirstSuccessOrRejection ==
    /\ [][StopsAtFirstDecisiveInvocation /\ ReturnIsFinal]_vars
    /\ [](ReturnedAfterLastFailure => retryResult.err = retryLast.err)

\* Retry returned at the second of three attempts with the error canRetry
\* rejected, the first having failed with the error it accepts.
C24_Witness ==
    /\ retryPc = "returned"
    /\ numAttempts = MaxAttempts
    /\ canRetry = [isNil |-> FALSE, accepts |-> {"e1"}]
    /\ retryCalls = 2
    /\ retryResult = RetryResult(ZeroValue, "e2")

\* C21: a call of Retry with a nil canRetry never panics: whatever fn
\* returns, the call is in its loop, in its backoff, or has returned a
\* RetryResult.
C21_NilCanRetryNeverPanics ==
    canRetry.isNil => retryPc # "panicked"

-----------------------------------------------------------------------------
(***************************************************************************)
(* Properties of the pod watcher.                                          *)
(***************************************************************************)

\* An Added or Modified event whose object is a Pod.
AddedOrModifiedPod(ev) == ev.type \in {"Added", "Modified"} /\ ev.object = "Pod"

\* The watch created last, 0 when none was.
LastCreated ==
    IF \E w \in WatchIDs : watches[w].created
    THEN CHOOSE w \in WatchIDs :
            watches[w].created /\ \A v \in WatchIDs : watches[v].created => v <= w
    ELSE 0

\* C16: the handler is invoked only with an event that is Added or Modified
\* and carries a Pod; any other event received is discarded, the handler is
\* not invoked and the watcher stays in its loop.
C16_OnlyAddedOrModifiedPods ==
    [][/\ (pwPc # "handle" /\ pwPc' = "handle") => AddedOrModifiedPod(pwEvent')
       /\ (pwEvent' # pwEvent /\ ~AddedOrModifiedPod(pwEvent'))
             => (pwPc = "select" /\ pwPc' = "select")]_vars

\* After a handler ran, a Deleted event of a Pod was received and the watcher
\* is back at its select.
C16_Witness ==
    /\ pwPc = "select"
    /\ pwHandlerErr # "none"
    /\ pwEvent = [type |-> "Deleted", object |-> "Pod"]

\* C17: while the context is not done the watcher leaves the creation loop
\* only by a successful creation, whatever the number of failed attempts, and
\* whenever it waits for or handles events with the context not done, the
\* watch it reads is the one created last.
C17_RecreatesUntilSuccess ==
    [][/\ (pwPc \in {"create", "sleep"} /\ pwPc' \notin {"create", "sleep"})
             => \/ weederCtxDone
                \/ /\ k8sWatch' # k8sWatch
                   /\ ~watches[k8sWatch'].created
                   /\ watches'[k8sWatch'].open
       /\ (pwPc' \in {"select", "handle"} /\ ~weederCtxDone')
             => (k8sWatch' # NilWatch /\ k8sWatch' = LastCreated')]_vars

\* The first watch closed by itself, a second one was created and an event
\* read from it is being handled.
C17_Witness ==
    /\ ~weederCtxDone
    /\ pwPc = "handle"
    /\ k8sWatch = 2
    /\ ~watches[1].open
    /\ ~watches[1].stopped
    /\ watches[2].open

HandlerReturns == pwPc = "handle" /\ pwPc' # "handle"

\* C27: an error returned by the handler does not end the watcher: when the
\* handler returns, with an error or without, the watcher is back in the
\* select of its loop on the same watch, which is not stopped; so as long as
\* the context is not done a watcher whose handler has failed, any number of
\* times, has neither exited nor panicked, and handles the next accepted
\* event.
C27_HandlerErrorKeepsWatching ==
    /\ [][HandlerReturns =>
             /\ pwPc' = "select"
             /\ k8sWatch' = k8sWatch
             /\ watches' = watches]_vars
    /\ []((pwHandlerErr = "err" /\ ~weederCtxDone) =>
             pwPc \notin {"exited", "panicked"})

\* The handler is called for an accepted event of the first watch after its
\* previous call returned an error; the context is not done.
C27_Witness ==
    /\ pwPc = "handle"
    /\ pwHandlerErr = "err"
    /\ ~weederCtxDone
    /\ k8sWatch = 1
    /\ watches[1].open
    /\ AddedOrModifiedPod(pwEvent)

C30_NeverReadsUnsetWatch ==
    k8sWatch = NilWatch =>
        /\ pwPc # "panicked"
        /\ pwPc = "exited" => \A w \in WatchIDs : ~watches[w].stopped

-----------------------------------------------------------------------------
(***************************************************************************)
(* Properties of the flattening.                                           *)
(***************************************************************************)

\* The record made of a reference and one ScaleInfo.
Flattened(ref, info) ==
    [ref |-> ref, level |-> info.level, initialDelay |-> info.initialDelay,
     timeout |-> info.timeout, replicas |-> info.replicas]

\* C20: createScaleUpResourceInfos and createScaleDownResourceInfos return
\* one record per DependentResourceInfo, in input order, with the entry's
\* reference and the level, initialDelay, timeout and replicas of that
\* entry's ScaleUpInfo, respectively ScaleDownInfo.
C20_FlattenedFromOwnScaleInfo ==
    /\ configPc \in {"down", "flattened"} =>
          /\ Len(scaleDownResourceInfos) = Len(dependentResourceInfos)
          /\ \A i \in 1..Len(dependentResourceInfos) :
                scaleDownResourceInfos[i] =
                    Flattened(dependentResourceInfos[i].ref,
                              dependentResourceInfos[i].scaleDownInfo)
    /\ configPc = "flattened" =>
          /\ Len(scaleUpResourceInfos) = Len(dependentResourceInfos)
          /\ \A i \in 1..Len(dependentResourceInfos) :
                scaleUpResourceInfos[i] =
                    Flattened(dependentResourceInfos[i].ref,
                              dependentResourceInfos[i].scaleUpInfo)

\* Both lists are built from a config of two entries that differ from each
\* other, and whose ScaleUpInfo and ScaleDownInfo differ in every field.
C20_Witness ==
    /\ configPc = "flattened"
    /\ Len(dependentResourceInfos) = 2
    /\ dependentResourceInfos[1].scaleUpInfo # dependentResourceInfos[2].scaleUpInfo
    /\ \A i \in 1..2 :
          /\ scaleUpResourceInfos[i].level # scaleDownResourceInfos[i].level
          /\ scaleUpResourceInfos[i].initialDelay # scaleDownResourceInfos[i].initialDelay
          /\ scaleUpResourceInfos[i].timeout # scaleDownResourceInfos[i].timeout
          /\ scaleUpResourceInfos[i].replicas # scaleDownResourceInfos[i].replicas

====
